---- MODULE Spec2Model ----
(***************************************************************************)
(* Model of the garbo worker pipeline and company API:                     *)
(*   - the diffEqualities worker (src/src/workers/guessWikidata.ts,        *)
(*     lines 133-180), which diffs a proposed equalities fragment and      *)
(*     enqueues a save job on the saveToAPI queue;                         *)
(*   - the guessWikidata worker (same file, lines 1-131), with its         *)
(*     name-simplifying search loop getWikidataSearchResults.              *)
(*   - the POST routes of the company API (src/unnamed/part_001) for    *)
(*     emissions, economy and reporting periods.                           *)
(*   - the company gate and the goals, initiatives, equalities, industry   *)
(*     and company routes of the same file.                                *)
(* Four specifications share the variables: SpecDiff runs the              *)
(* diffEqualities handler under at-least-once delivery, SpecGuess runs the *)
(* guessWikidata handler against nondeterministic collaborators, SpecApi   *)
(* runs one POST request against a Persistence Gateway whose upserts       *)
(* settle in any order, each by success or by failure, SpecRoutes runs     *)
(* concurrent requests about one company through the gate and the          *)
(* handlers behind it.                                                     *)
(***************************************************************************)
EXTENDS Integers, Sequences, FiniteSets, TLC

VARIABLES
    \* ---- the broker -------------------------------------------------
    enqueued,      \* every queue.add made by a handler, in order: [queue, name, data]
    \* ---- the diffEqualities job and its executions --------------------
    jobData,       \* job.data of the diffEqualities job under delivery
    deliveries,    \* how many times the broker has delivered that job
    jobState,      \* "waiting" | "active" | "completed" | "failed"
    exec,          \* exec[k]: the k-th execution of the handler
    diffCalls,     \* every diffChanges call, in order: [delivery, existingCompany, before, after]
    \* ---- the guessWikidata job ----------------------------------------
    companyName,   \* job.data.companyName
    gpc,           \* position of the guessWikidata handler
    query,         \* companyName argument of the pending getWikidataSearchResults call
    retry,         \* retry argument of the pending getWikidataSearchResults call
    searches,      \* every searchCompany query issued, in order
    answers,       \* what each searchCompany call answered, in order
    searchResults, \* what getWikidataSearchResults returned
    lookups,       \* the id lists getWikidataEntities was called with, in order
    entities,      \* what getWikidataEntities returned
    stacktrace,    \* job.stacktrace: the failure messages of earlier attempts
    askCalls,      \* how many times the Extraction Service (ask) was called
    askRequests,   \* the turns of each request sent to the Extraction Service
    response,      \* the Extraction Service's response text
    messages,      \* job.sendMessage calls, in order
    returnValue,   \* the handler's return value
    error,         \* the error the handler failed with
    \* ---- one POST request to the company API ---------------------------
    route,         \* "emissions" | "economy" | "reporting-periods"
    periods,       \* the reporting periods the request is about
    reqBody,       \* reqBody[p][g]: what req.body supplies for field group g of period p
    turnover,      \* turnover[p]: the turnover object of period p as the request supplied it
    calls,         \* calls[p][g]: the argument field-group upsert g of period p was called with
    apc,           \* "received" | "running" | "responded"
    stage,         \* stage[p]: how far the processing of period p has come
    containers,    \* containers[p][c]: state of upsertEmissions / upsertEconomy of period p
    upserts,       \* upserts[p][g]: state of the field-group upsert g of period p
    store,         \* store[p][g]: what the database holds for field group g of period p
    firstSettled,  \* firstSettled[p]: how the first field-group upsert of period p to settle ended
    apiResponse,   \* what the request was answered with
    \* ---- concurrent requests about one company ------------------------
    companyStored,       \* whether the database holds the company
    industryStored,      \* whether the database holds an industry record of the company
    createIndustryCalls, \* how many times createIndustry was called
    requests             \* requests[r]: route, position, res.locals and outcome of request r

diffVars == <<jobData, deliveries, jobState, exec, diffCalls>>
guessVars == <<companyName, gpc, query, retry, searches, answers, searchResults,
               lookups, entities, stacktrace, askCalls, askRequests, response,
               messages, returnValue, error>>
apiVars == <<route, periods, reqBody, turnover, calls, apc, stage, containers, upserts,
             store, firstSettled, apiResponse>>
routeVars == <<companyStored, industryStored, createIndustryCalls, requests>>
vars == <<enqueued, diffVars, guessVars, apiVars, routeVars>>

\* ------------------------------------------------------------------ bounds

\* How many times the broker delivers one job (at-least-once delivery).
MaxDeliveries == 2
\* The longest company name, in whitespace-delimited tokens.
MaxTokens == 3
\* The most failure messages a job's stacktrace holds.
MaxFailures == 2

\* ------------------------------------------------------------- JS values

\* JavaScript's undefined, for string-valued places.
Undefined == "undefined"

\* ------------------------------------------------- fragments and payloads

\* The fields of a fragment and the values a field takes; Absent is a field
\* the fragment does not supply.
Absent == "absent"
FieldVals == {Absent, "a", "b"}
\* A fragment that is undefined (the company stores none).
NoFragment == [defined |-> FALSE]
Fragments == [defined : {TRUE}, description : FieldVals, value : FieldVals]
FragmentFields == {"description", "value"}
MaybeFragments == Fragments \cup {NoFragment}

\* existingCompany: undefined, or a stored company with its fragments.
NoCompany == [exists |-> FALSE]
Companies == [exists : {TRUE}, goals : MaybeFragments, equalities : MaybeFragments]
MaybeCompanies == Companies \cup {NoCompany}

Urls == {"https://r/1.pdf", "https://r/2.pdf"}
CompanyNames == {"Telia"}

\* job.data of a diffEqualities job.
DiffJobData ==
    [url : Urls, companyName : CompanyNames, existingCompany : MaybeCompanies,
     wikidata : {[node |-> "Q1"]}, equalities : Fragments]

\* ------------------------------------------------- lib/saveUtils (boundary)

\* A field of a fragment; an undefined fragment supplies no field.
FieldOf(frag, f) == IF frag.defined THEN frag[f] ELSE Absent

\* The Diff Engine: the fields on which the stored and the proposed fragment
\* differ, and the verdict, true whenever that set is non-empty.
DiffChanges(args) ==
    LET changes == {f \in FragmentFields :
                        FieldOf(args.before, f) # FieldOf(args.after, f)}
    IN  [diff |-> changes, requiresApproval |-> changes # {}]

\* The attribution envelope of an automated submission of the report at url.
defaultMetadata(url) == [source |-> "automated", url |-> url, verified |-> FALSE]

\* ---------------------------------------------------- the diffEqualities job

\* { ...a, ...b }: object spread, the later object's keys win.
Spread(a, b) ==
    [key \in (DOMAIN a) \cup (DOMAIN b) |-> IF key \in DOMAIN b THEN b[key] ELSE a[key]]

\* existingCompany?.goals
GoalsOf(company) == IF company.exists THEN company.goals ELSE NoFragment

\* The body the handler builds: the proposed equalities and the metadata.
DiffBody(data, metadata) == [equalities |-> data.equalities, metadata |-> metadata]

\* The argument of the handler's diffChanges call.
DiffArgs(data) ==
    [existingCompany |-> data.existingCompany,
     before |-> GoalsOf(data.existingCompany),
     after |-> data.equalities]

\* "Only save if we detected any meaningful changes": if (diff)
ShouldSaveAlways(diff) == TRUE
ShouldSave(diff) == diff # {}

\* The payload of the save job.
SaveJobDataKeepsEqualities(data, body, diff, requiresApproval) ==
    Spread(data, [body |-> body, diff |-> diff, requiresApproval |-> requiresApproval,
                  apiSubEndpoint |-> "equalities"])
SaveJobData(data, body, diff, requiresApproval) ==
    Spread(data, [body |-> body, diff |-> diff, requiresApproval |-> requiresApproval,
                  apiSubEndpoint |-> "equalities", equalities |-> NoFragment])

Deliveries == 1..MaxDeliveries
IdleExec ==
    [pc |-> "idle", metadata |-> defaultMetadata(""), body |-> [set |-> FALSE],
     diff |-> {}, requiresApproval |-> FALSE, result |-> [set |-> FALSE]]

\* The save jobs on the saveToAPI queue, as indices of enqueued.
SaveJobs == {i \in DOMAIN enqueued : enqueued[i].queue = "saveToAPI"}
\* How many save jobs execution k added.
AddedBy(k) == Cardinality({i \in SaveJobs : enqueued[i].by = k})

\* The broker delivers the job and the handler runs to its first await: it
\* builds the metadata and the body and calls diffChanges.
Deliver(k) ==
    /\ jobState = "waiting"
    /\ k = deliveries + 1
    /\ k <= MaxDeliveries
    /\ LET metadata == defaultMetadata(jobData.url)
       IN  exec' = [exec EXCEPT ![k] = [@ EXCEPT !.pc = "diffing",
                                                 !.metadata = metadata,
                                                 !.body = DiffBody(jobData, metadata)]]
    /\ diffCalls' = Append(diffCalls, [delivery |-> k] @@ DiffArgs(jobData))
    /\ deliveries' = k
    /\ jobState' = "active"
    /\ UNCHANGED <<enqueued, jobData, guessVars, apiVars, routeVars>>

\* diffChanges resolves.
DiffReturns(k) ==
    /\ exec[k].pc = "diffing"
    /\ LET r == DiffChanges(DiffArgs(jobData))
       IN  exec' = [exec EXCEPT ![k] = [@ EXCEPT !.pc = "diffed",
                                                 !.diff = r.diff,
                                                 !.requiresApproval = r.requiresApproval]]
    /\ UNCHANGED <<enqueued, jobData, deliveries, jobState, diffCalls, guessVars, apiVars, routeVars>>

\* diffChanges rejects: the handler fails and the broker retries the job
\* while deliveries remain.
DiffFails(k) ==
    /\ exec[k].pc = "diffing"
    /\ exec' = [exec EXCEPT ![k].pc = "failed"]
    /\ jobState' = IF k < MaxDeliveries THEN "waiting" ELSE "failed"
    /\ UNCHANGED <<enqueued, jobData, deliveries, diffCalls, guessVars, apiVars, routeVars>>

\* saveToAPI.queue.add(companyName + ' equalities', {...})
SaveEnqueue(k) ==
    /\ exec[k].pc = "diffed"
    /\ ShouldSave(exec[k].diff)
    /\ enqueued' = Append(enqueued,
            [queue |-> "saveToAPI",
             name |-> <<jobData.companyName, " equalities">>,
             data |-> SaveJobData(jobData, exec[k].body, exec[k].diff,
                                  exec[k].requiresApproval),
             by |-> k])
    /\ exec' = [exec EXCEPT ![k].pc = "added"]
    /\ UNCHANGED <<jobData, deliveries, jobState, diffCalls, guessVars, apiVars, routeVars>>

\* return { body, diff, requiresApproval }: the job completes.
DiffReturn(k) ==
    /\ \/ exec[k].pc = "added"
       \/ exec[k].pc = "diffed" /\ ~ShouldSave(exec[k].diff)
    /\ exec' = [exec EXCEPT ![k] = [@ EXCEPT !.pc = "returned",
                    !.result = [body |-> exec[k].body, diff |-> exec[k].diff,
                                requiresApproval |-> exec[k].requiresApproval]]]
    /\ jobState' = "completed"
    /\ UNCHANGED <<enqueued, jobData, deliveries, diffCalls, guessVars, apiVars, routeVars>>

\* The worker dies (or stalls) before the job is acknowledged: the broker puts
\* the job back and delivers it again.
WorkerCrash(k) ==
    /\ exec[k].pc \in {"diffing", "diffed", "added"}
    /\ exec' = [exec EXCEPT ![k].pc = "crashed"]
    /\ jobState' = "waiting"
    /\ UNCHANGED <<enqueued, jobData, deliveries, diffCalls, guessVars, apiVars, routeVars>>

GuessIdle ==
    /\ companyName = <<>>
    /\ gpc = "idle"
    /\ query = <<>>
    /\ retry = 0
    /\ searches = <<>>
    /\ answers = <<>>
    /\ searchResults = <<>>
    /\ lookups = <<>>
    /\ entities = <<>>
    /\ stacktrace = [defined |-> FALSE]
    /\ askCalls = 0
    /\ askRequests = <<>>
    /\ response = [kind |-> "none"]
    /\ messages = <<>>
    /\ returnValue = [kind |-> "none"]
    /\ error = "none"

\* No request to the company API is under way.
ApiIdle ==
    /\ route = "none"
    /\ periods = {}
    /\ reqBody = <<>>
    /\ turnover = <<>>
    /\ calls = <<>>
    /\ apc = "idle"
    /\ stage = <<>>
    /\ containers = <<>>
    /\ upserts = <<>>
    /\ store = <<>>
    /\ firstSettled = <<>>
    /\ apiResponse = [sent |-> FALSE]

\* No request to the company's routes is under way.
RoutesIdle ==
    /\ companyStored = FALSE
    /\ industryStored = FALSE
    /\ createIndustryCalls = 0
    /\ requests = <<>>

InitDiff ==
    /\ enqueued = <<>>
    /\ jobData \in DiffJobData
    /\ deliveries = 0
    /\ jobState = "waiting"
    /\ exec = [k \in Deliveries |-> IdleExec]
    /\ diffCalls = <<>>
    /\ GuessIdle
    /\ ApiIdle
    /\ RoutesIdle

NextDiff ==
    \E k \in Deliveries :
        \/ Deliver(k)
        \/ DiffReturns(k)
        \/ DiffFails(k)
        \/ SaveEnqueue(k)
        \/ DiffReturn(k)
        \/ WorkerCrash(k)

SpecDiff == InitDiff /\ [][NextDiff]_vars

\* ------------------------------------------------------------- strings

\* A string is a sequence of symbols: a symbol is a whitespace character or
\* a run of letters (a word). A token of a string may be several words long.
Whitespace == {" ", "\t"}
InputWords == {"Telia", "Group", "AB"}

\* String.prototype.toLowerCase, symbol by symbol.
LowerSymbol(c) ==
    CASE c = "Telia" -> "telia"
      [] c = "Group" -> "group"
      [] c = "AB" -> "ab"
      [] OTHER -> c
toLowerCase(str) == [i \in DOMAIN str |-> LowerSymbol(str[i])]

\* str.split(/\s+/): the pieces between maximal runs of whitespace; a leading
\* or trailing run leaves an empty piece.
RECURSIVE SplitWhitespaceFrom(_, _, _, _)
SplitWhitespaceFrom(str, piece, pieces, inRun) ==
    IF str = <<>> THEN Append(pieces, piece)
    ELSE IF Head(str) \in Whitespace
         THEN IF inRun
              THEN SplitWhitespaceFrom(Tail(str), <<>>, pieces, TRUE)
              ELSE SplitWhitespaceFrom(Tail(str), <<>>, Append(pieces, piece), TRUE)
         ELSE SplitWhitespaceFrom(Tail(str), Append(piece, Head(str)), pieces, FALSE)
SplitWhitespace(str) == SplitWhitespaceFrom(str, <<>>, <<>>, FALSE)

\* str.split(' '): the pieces between single spaces.
RECURSIVE SplitSpaceFrom(_, _, _)
SplitSpaceFrom(str, piece, pieces) ==
    IF str = <<>> THEN Append(pieces, piece)
    ELSE IF Head(str) = " "
         THEN SplitSpaceFrom(Tail(str), <<>>, Append(pieces, piece))
         ELSE SplitSpaceFrom(Tail(str), Append(piece, Head(str)), pieces)
SplitSpace(str) == SplitSpaceFrom(str, <<>>, <<>>)

\* pieces.join(sep)
RECURSIVE Join(_, _)
Join(pieces, sep) ==
    IF pieces = <<>> THEN <<>>
    ELSE IF Len(pieces) = 1 THEN pieces[1]
         ELSE pieces[1] \o sep \o Join(Tail(pieces), sep)

\* pieces.slice(0, -1)
DropLast(pieces) == SubSeq(pieces, 1, Len(pieces) - 1)

\* --------------------------------------------------- the guessWikidata job

insignificantWords == {"ab", "the", "and", "inc", "co", "publ"}

\* insignificantWords.has(word): a piece that is exactly one of the words.
IsInsignificant(piece) == Len(piece) = 1 /\ piece[1] \in insignificantWords

\* The simplified company name of the first retry.
SimplifyKeepsCase(name) ==
    Join(SelectSeq(SplitWhitespace(name),
                   LAMBDA word : ~IsInsignificant(toLowerCase(word))), <<" ">>)
Simplify(name) ==
    Join(SelectSeq(SplitWhitespace(toLowerCase(name)),
                   LAMBDA word : ~IsInsignificant(word)), <<" ">>)

\* "Retry without unwanted keywords, e.g. Telia Group -> Telia"
DropFirstPiece(name) == Join(Tail(SplitSpace(name)), <<" ">>)
DropLastPiece(name) == Join(DropLast(SplitSpace(name)), <<" ">>)

\* if (retry > 3) return []
RetryExhaustedAfterFive(r) == r > 4
RetryExhausted(r) == r > 3

\* After an empty search result: whether getWikidataSearchResults calls
\* itself again, and with which name.
NextCall(name, r) ==
    IF r = 0
    THEN [call |-> TRUE, name |-> Simplify(name)]
    ELSE LET shorter == DropLastPiece(name)
         IN  [call |-> shorter # <<>>, name |-> shorter]

\* What the collaborators answer.
EntityIds == {"Q1", "Q2"}
\* A search hit of the Entity Search boundary.
SearchHit(id) == [id |-> id, description |-> <<"about ", id>>]
SearchAnswers == {<<>>, <<SearchHit("Q1")>>, <<SearchHit("Q2"), SearchHit("Q1")>>}

\* if (results.length) return results
IsHitOnlyIfSeveral(results) == Len(results) > 1
IsHit(results) == Len(results) # 0

\* searchResults.map((result) => result.id)
LookupIds(results) == [i \in DOMAIN results |-> results[i].id]

\* JSON text: garbage, or the serialisation of a value at some indentation.
JSONparse(text) == text.value
JSONstringify(value) == [kind |-> "json", indent |-> 2, value |-> value]
ParsedValues == [wikidata : [node : {Undefined, "", "Q1"}]]
Responses == {[kind |-> "garbage"]}
                \cup [kind : {"json"}, indent : {0, 2}, value : ParsedValues]

\* An entity record of the Entity Detail boundary.
\* claims: undefined
NoClaims == [defined |-> FALSE]
Entity(id, hasEmissions) ==
    [id |-> id, label |-> <<"label of ", id>>,
     claims |-> [defined |-> TRUE,
                 props |-> IF hasEmissions THEN {"P5991", "P31"} ELSE {"P31"}]]

\* What getWikidataEntities may answer for ids: the records of some of the
\* ids, in the order asked.
EntityAnswers(ids) ==
    {SelectSeq([i \in DOMAIN ids |-> Entity(ids[i], ids[i] \in emitting)],
               LAMBDA e : e.id \in found) :
        found \in SUBSET {ids[i] : i \in DOMAIN ids},
        emitting \in SUBSET {ids[i] : i \in DOMAIN ids}}

\* if (results.length === 0)
NoEntitiesNever(results) == FALSE
NoEntities(results) == Len(results) = 0

\* hasEmissions: Boolean(e?.claims?.P5991)
hasEmissions(e) == e.claims.defined /\ "P5991" \in e.claims.props

\* The comparator of toSorted: entities with a carbon footprint first.
CompareByEmissionsInverted(a, b) ==
    (IF hasEmissions(a) THEN 1 ELSE 0) - (IF hasEmissions(b) THEN 1 ELSE 0)
CompareByEmissions(a, b) ==
    (IF hasEmissions(a) THEN 0 ELSE 1) - (IF hasEmissions(b) THEN 0 ELSE 1)

\* Array.prototype.toSorted with that comparator: a stable sort, by insertion
\* of each element before the first one that compares greater.
RECURSIVE InsertStable(_, _)
InsertStable(sorted, e) ==
    IF sorted = <<>> THEN <<e>>
    ELSE IF CompareByEmissions(Head(sorted), e) > 0
         THEN <<e>> \o sorted
         ELSE <<Head(sorted)>> \o InsertStable(Tail(sorted), e)
RECURSIVE toSortedFrom(_, _)
toSortedFrom(rest, sorted) ==
    IF rest = <<>> THEN sorted
    ELSE toSortedFrom(Tail(rest), InsertStable(sorted, Head(rest)))
toSorted(list) == toSortedFrom(list, <<>>)

\* { ...e, claims: undefined }
WithoutClaimsKeepsThem(e) == e
WithoutClaims(e) == Spread(e, [claims |-> NoClaims])

\* orderedResults: the entities sorted, then stripped of their claims.
OrderedResults(results) ==
    LET sorted == toSorted(results)
    IN  [i \in DOMAIN sorted |-> WithoutClaims(sorted[i])]

\* JSON.stringify of an entity leaves out a key whose value is undefined
\* (claims is the only key the handler sets to undefined).
DropUndefined(e) ==
    [key \in {k \in DOMAIN e : ~(k = "claims" /\ ~e.claims.defined)} |-> e[key]]
StringifyList(list) == JSONstringify([i \in DOMAIN list |-> DropUndefined(list[i])])

\* The turns of a request: a role and a content, which is a text or JSON text.
Text(str) == [kind |-> "text", text |-> str]
NoTurn == [defined |-> FALSE]
IsTurn(m) == "role" \in DOMAIN m
\* content.length: JSON text of a list is never empty.
ContentLength(content) == IF content.kind = "text" THEN Len(content.text) ELSE 2

\* The failure messages of earlier attempts, oldest first.
FailureSymbols == <<"e1", "e2", "e3", "e4">>
NoStack == [defined |-> FALSE]
Stacktraces ==
    {NoStack} \cup {[defined |-> TRUE, lines |-> [i \in 1..n |-> <<FailureSymbols[i]>>]] :
                        n \in 0..MaxFailures}

\* Array.isArray(job.stacktrace)
\*     ? { role: 'user', content: job.stacktrace.join('\n') } : undefined
StacktraceTurnLastOnly(st) ==
    IF st.defined
    THEN [role |-> "user",
          content |-> Text(IF st.lines = <<>> THEN <<>> ELSE st.lines[Len(st.lines)])]
    ELSE NoTurn
StacktraceTurn(st) ==
    IF st.defined
    THEN [role |-> "user", content |-> Text(Join(st.lines, <<"\n">>))]
    ELSE NoTurn

\* The request sent to the Extraction Service.
AskRequest(name, orderedResults, st) ==
    SelectSeq(
        << [role |-> "system",
            content |-> Text(<<"I have a company named ">> \o name
                                \o <<" and I am looking for the wikidata entry">>)],
           [role |-> "user", content |-> Text(<<"wikidata.prompt">>)],
           [role |-> "assistant",
            content |-> Text(<<"OK. Just send me the wikidata search results?">>)],
           [role |-> "user", content |-> StringifyList(orderedResults)],
           StacktraceTurn(st) >>,
        LAMBDA m : IsTurn(m) /\ ContentLength(m.content) > 0)

\* The handler's return value.
GuessResultRaw(text) == text
GuessResult(text) == JSONstringify(JSONparse(text))

\* const { companyName } = job.data; the first call of the search.
GuessStart ==
    /\ gpc = "start"
    /\ IF companyName = <<>>
       THEN /\ error' = "No company name was provided"
            /\ gpc' = "failed"
            /\ UNCHANGED <<query, retry>>
       ELSE /\ query' = companyName
            /\ retry' = 0
            /\ gpc' = "search"
            /\ UNCHANGED error
    /\ UNCHANGED <<enqueued, diffVars, apiVars, routeVars, companyName, searches, answers, searchResults,
                   lookups, entities, stacktrace, askCalls, askRequests, response,
                   messages, returnValue>>

\* One attempt of getWikidataSearchResults: the searchCompany call, its
\* answer, and the next call (or the return) the answer leads to.
Search ==
    /\ gpc = "search"
    /\ \E results \in SearchAnswers :
        /\ searches' = Append(searches, query)
        /\ answers' = Append(answers, results)
        /\ IF IsHit(results)
           THEN /\ searchResults' = results
                /\ gpc' = "fetch"
                /\ UNCHANGED <<query, retry>>
           ELSE LET next == NextCall(query, retry)
                IN  IF next.call
                    THEN /\ query' = next.name
                         /\ retry' = retry + 1
                         /\ gpc' = IF RetryExhausted(retry + 1) THEN "fetch" ELSE "search"
                         /\ searchResults' = <<>>
                    ELSE /\ searchResults' = <<>>
                         /\ gpc' = "fetch"
                         /\ UNCHANGED <<query, retry>>
    /\ UNCHANGED <<enqueued, diffVars, apiVars, routeVars, companyName, lookups, entities, stacktrace,
                   askCalls, askRequests, response, messages, returnValue, error>>

\* getWikidataEntities answers; no results fails the job.
FetchEntities ==
    /\ gpc = "fetch"
    /\ \E results \in EntityAnswers(LookupIds(searchResults)) :
        /\ lookups' = Append(lookups, LookupIds(searchResults))
        /\ entities' = results
        /\ IF NoEntities(results)
           THEN /\ messages' = Append(messages,
                        [kind |-> "notFound", companyName |-> companyName])
                /\ error' = "No Wikidata entry"
                /\ gpc' = "failed"
           ELSE /\ gpc' = "ask"
                /\ UNCHANGED <<messages, error>>
    /\ UNCHANGED <<enqueued, diffVars, apiVars, routeVars, companyName, query, retry, searches, answers,
                   searchResults, stacktrace, askCalls, askRequests, response,
                   returnValue>>

\* The Extraction Service answers; the handler parses the answer and returns.
Ask ==
    /\ gpc = "ask"
    /\ \E text \in Responses :
        /\ askCalls' = askCalls + 1
        /\ askRequests' = Append(askRequests,
                AskRequest(companyName, OrderedResults(entities), stacktrace))
        /\ response' = text
        /\ IF text.kind = "garbage"
           THEN /\ error' = "SyntaxError"
                /\ gpc' = "failed"
                /\ UNCHANGED <<messages, returnValue>>
           ELSE LET wikidataId == JSONparse(text).wikidata.node
                IN  IF wikidataId \in {Undefined, ""}
                    THEN /\ error' = "Could not parse wikidataId from json"
                         /\ gpc' = "failed"
                         /\ UNCHANGED <<messages, returnValue>>
                    ELSE /\ messages' = Append(messages,
                                [kind |-> "bestMatch", companyName |-> companyName,
                                 json |-> JSONstringify(JSONparse(text))])
                         /\ returnValue' = GuessResult(text)
                         /\ gpc' = "done"
                         /\ UNCHANGED error
    /\ UNCHANGED <<enqueued, diffVars, apiVars, routeVars, companyName, query, retry, searches, answers,
                   searchResults, lookups, entities, stacktrace>>

\* The company names a job may carry: up to MaxTokens words, separated by a
\* space or by a tab and a space, with or without surrounding spaces.
TokenLists == UNION {[1..n -> InputWords] : n \in 0..MaxTokens}
Names ==
    {lead \o Join([i \in DOMAIN tokens |-> <<tokens[i]>>], sep) \o trail :
        tokens \in TokenLists,
        sep \in {<<" ">>, <<"\t", " ">>},
        lead \in {<<>>, <<" ">>},
        trail \in {<<>>, <<" ">>}}

InitGuess ==
    /\ enqueued = <<>>
    /\ jobData = [set |-> FALSE]
    /\ deliveries = 0
    /\ jobState = "none"
    /\ exec = [k \in Deliveries |-> IdleExec]
    /\ diffCalls = <<>>
    /\ companyName \in Names
    /\ gpc = "start"
    /\ query = <<>>
    /\ retry = 0
    /\ searches = <<>>
    /\ answers = <<>>
    /\ searchResults = <<>>
    /\ lookups = <<>>
    /\ entities = <<>>
    /\ stacktrace \in Stacktraces
    /\ askCalls = 0
    /\ askRequests = <<>>
    /\ response = [kind |-> "none"]
    /\ messages = <<>>
    /\ returnValue = [kind |-> "none"]
    /\ error = "none"
    /\ ApiIdle
    /\ RoutesIdle

NextGuess ==
    \/ GuessStart
    \/ Search
    \/ FetchEntities
    \/ Ask

SpecGuess == InitGuess /\ [][NextGuess]_vars

\* ------------------------------------------------------------ company API

\* The most field groups one request supplies.
MaxSupplied == 2

\* The reporting periods a request can name.
Periods == {"p1", "p2"}
\* The request's period lists: the reportingPeriods array, or the :year of
\* the emissions and economy routes.
PeriodLists(r) == IF r = "reporting-periods" THEN {{}, {"p1"}, {"p1", "p2"}} ELSE {{"p1"}}
Routes == {"emissions", "economy", "reporting-periods"}

EmissionsGroups ==
    {"scope1", "scope2", "scope3", "statedTotalEmissions", "biogenic", "scope1And2"}
EconomyGroups == {"turnover", "employees"}
Groups == EmissionsGroups \cup EconomyGroups
\* The field groups a route's body holds.
RouteGroups(r) ==
    CASE r = "emissions" -> EmissionsGroups
      [] r = "economy" -> EconomyGroups
      [] OTHER -> Groups

\* What a body holds for a field group: nothing (undefined), null or an
\* object. The schema lets every group but scope3 be null.
Null == "null"
Object == "object"
SuppliedValues(g) == IF g = "scope3" THEN {Object} ELSE {Null, Object}

\* The bodies of a request of route r about the periods ps. The periods of
\* a request are interchangeable, so "p1" is the one with at least as many
\* supplied groups.
Bodies(r, ps) ==
    LET slots == ps \X RouteGroups(r)
        Of(S, p) == Cardinality({slot \in S : slot[1] = p})
        chosen == {S \in SUBSET slots :
                        Cardinality(S) <= MaxSupplied /\ Of(S, "p1") >= Of(S, "p2")}
    IN  UNION {
            {[p \in Periods |-> [g \in Groups |->
                    IF <<p, g>> \in S THEN v[<<p, g>>] ELSE Undefined]] :
                v \in {w \in [S -> {Null, Object}] :
                            \A slot \in S : w[slot] \in SuppliedValues(slot[2])}} :
            S \in chosen}

\* The turnover objects a body can hold: a value and an optional currency, a
\* string given as its symbols.
NoCurrency == [defined |-> FALSE]
Currency(text) == [defined |-> TRUE, text |-> text]
Currencies == {NoCurrency, Currency(<<" ", "sek", "\t">>), Currency(<<"SEK">>)}
Turnovers == [value : {25}, currency : Currencies]
\* The turnover of a period whose body holds no turnover object.
NoTurnover == [value |-> 0, currency |-> NoCurrency]

\* String.prototype.trim: whitespace is cut from both ends.
RECURSIVE TrimStart(_)
TrimStart(text) ==
    IF text # <<>> /\ Head(text) \in Whitespace THEN TrimStart(Tail(text)) ELSE text
RECURSIVE TrimEnd(_)
TrimEnd(text) ==
    IF text # <<>> /\ text[Len(text)] \in Whitespace
    THEN TrimEnd(SubSeq(text, 1, Len(text) - 1))
    ELSE text
trim(text) == TrimEnd(TrimStart(text))
\* String.prototype.toUpperCase on the symbols of a currency.
UpperSymbol(c) ==
    CASE c = "sek" -> "SEK"
      [] OTHER -> c
toUpperCase(text) == [i \in DOMAIN text |-> UpperSymbol(text[i])]

\* "Normalise currency": the currency of the body's turnover object is
\* replaced by its trimmed, upper-cased form.
NormaliseUpperOnly(t) ==
    IF t.currency.defined
    THEN [t EXCEPT !.currency = Currency(toUpperCase(t.currency.text))]
    ELSE t
Normalise(t) ==
    IF t.currency.defined
    THEN [t EXCEPT !.currency = Currency(toUpperCase(trim(t.currency.text)))]
    ELSE t

\* JavaScript truthiness of a body value.
Truthy(v) == v \notin {Undefined, Null}
\* The test in front of each upsert: `scope3 &&` for scope3, `!== undefined`
\* for every other group.
\* The turnover object after the economy route's `if (turnover)` block.
EconomyTurnover(v, t) == IF Truthy(v) THEN Normalise(t) ELSE t
\* The turnover object after the reporting-periods route's
\* `if (turnover?.currency)` block.
PeriodTurnover(v, t) ==
    IF Truthy(v) /\ t.currency.defined /\ t.currency.text # <<>> THEN Normalise(t) ELSE t

IsUpsertedIfTruthy(g, v) == Truthy(v)
IsUpserted(g, v) == IF g = "scope3" THEN Truthy(v) ELSE v # Undefined

\* The arguments of the upsert calls: no call, or the group's value, which
\* for turnover is the normalised turnover object.
NoCall == [called |-> FALSE]
Argument(g, v, t) ==
    IF g = "turnover" /\ v = Object
    THEN [called |-> TRUE, kind |-> v, value |-> t.value, currency |-> t.currency]
    ELSE [called |-> TRUE, kind |-> v]
UpsertCalls(fields, t, groups) ==
    [g \in Groups |-> IF g \in groups /\ IsUpserted(g, fields[g])
                       THEN Argument(g, fields[g], t)
                       ELSE NoCall]

\* The upserts the array handed to Promise.allSettled starts, all of them
\* before the await.
StartUpserts(fields, groups) ==
    [g \in Groups |-> IF g \in groups /\ IsUpserted(g, fields[g]) THEN "pending" ELSE "none"]

\* What a successful field-group upsert leaves in the database.
Written(v) == IF v = Null THEN "deleted" ELSE "written"

\* A period's function rejects: the other periods' functions go on.
RejectPeriodAndTheRest(st, p) ==
    [q \in Periods |-> IF q = p \/ st[q] \in {"period", "containers", "fields"}
                        THEN "rejected" ELSE st[q]]
RejectPeriod(st, p) == [st EXCEPT ![p] = "rejected"]

\* Promise.all over upsertEmissions and upsertEconomy has fulfilled.
ContainersReadyAfterFirst(cs) == cs.emissions = "fulfilled" \/ cs.economy = "fulfilled"
ContainersReady(cs) == cs.emissions = "fulfilled" /\ cs.economy = "fulfilled"

\* The sibling upserts when upsert g rejects: Promise.allSettled leaves them
\* alone.
AfterRejectionCancelsRest(ups, g) ==
    [h \in Groups |-> IF h = g THEN "rejected"
                       ELSE IF ups[h] = "pending" THEN "cancelled" ELSE ups[h]]
AfterRejection(ups, g) == [ups EXCEPT ![g] = "rejected"]

\* Promise.allSettled fulfils whatever its promises do.
AllSettled(outcomes) == "fulfilled"

\* The GarboAPIError of a route's catch block.
Failure(r) ==
    [error |-> CASE r = "emissions" -> "Failed to update emissions"
                 [] r = "economy" -> "Failed to update economy"
                 [] OTHER -> "Failed to update reporting periods",
     statusCode |-> 500]
Ok == [ok |-> TRUE]

\* The outcomes the route's outer Promise.allSettled waits for.
Outcomes ==
    IF route = "reporting-periods"
    THEN {stage[p] : p \in periods}
    ELSE {upserts[p][g] : p \in periods, g \in Groups}

\* POST /:wikidataId/:year/emissions, up to its await.
PostEmissions ==
    /\ apc = "received"
    /\ route = "emissions"
    /\ apc' = "running"
    /\ upserts' = [p \in Periods |->
            IF p \in periods THEN StartUpserts(reqBody[p], EmissionsGroups) ELSE upserts[p]]
    /\ calls' = [p \in Periods |->
            IF p \in periods
            THEN UpsertCalls(reqBody[p], turnover[p], EmissionsGroups)
            ELSE calls[p]]
    /\ stage' = [p \in Periods |-> IF p \in periods THEN "fields" ELSE stage[p]]
    /\ UNCHANGED <<enqueued, diffVars, guessVars, routeVars, route, periods, reqBody, turnover,
                   containers, store, firstSettled, apiResponse>>

\* POST /:wikidataId/:year/economy, up to its await.
PostEconomy ==
    /\ apc = "received"
    /\ route = "economy"
    /\ apc' = "running"
    /\ upserts' = [p \in Periods |->
            IF p \in periods THEN StartUpserts(reqBody[p], EconomyGroups) ELSE upserts[p]]
    /\ calls' = [p \in Periods |->
            IF p \in periods
            THEN UpsertCalls(reqBody[p], EconomyTurnover(reqBody[p].turnover, turnover[p]),
                             EconomyGroups)
            ELSE calls[p]]
    /\ stage' = [p \in Periods |-> IF p \in periods THEN "fields" ELSE stage[p]]
    /\ UNCHANGED <<enqueued, diffVars, guessVars, routeVars, route, periods, reqBody, turnover,
                   containers, store, firstSettled, apiResponse>>

\* POST /:wikidataId/reporting-periods, up to its await: every period's
\* function runs to its upsertReportingPeriod call.
PostReportingPeriods ==
    /\ apc = "received"
    /\ route = "reporting-periods"
    /\ apc' = "running"
    /\ stage' = [p \in Periods |-> IF p \in periods THEN "period" ELSE stage[p]]
    /\ UNCHANGED <<enqueued, diffVars, guessVars, routeVars, route, periods, reqBody, turnover, calls,
                   containers, upserts, store, firstSettled, apiResponse>>

\* upsertReportingPeriod of period p settles; on success the period's
\* function calls upsertEmissions and upsertEconomy.
ReportingPeriodUpserted(p) ==
    /\ stage[p] = "period"
    /\ \E ok \in BOOLEAN :
        IF ok
        THEN /\ stage' = [stage EXCEPT ![p] = "containers"]
             /\ containers' = [containers EXCEPT
                    ![p] = [emissions |-> "pending", economy |-> "pending"]]
        ELSE /\ stage' = RejectPeriod(stage, p)
             /\ UNCHANGED containers
    /\ UNCHANGED <<enqueued, diffVars, guessVars, routeVars, route, periods, reqBody, turnover, calls,
                   apc, upserts, store, firstSettled, apiResponse>>

\* upsertEmissions or upsertEconomy of period p settles; Promise.all rejects
\* with the first of them that rejects.
ContainerSettles(p, c) ==
    /\ containers[p][c] = "pending"
    /\ \E ok \in BOOLEAN :
        /\ containers' = [containers EXCEPT
                ![p][c] = IF ok THEN "fulfilled" ELSE "rejected"]
        /\ stage' = IF ~ok /\ stage[p] = "containers"
                    THEN RejectPeriod(stage, p)
                    ELSE stage
    /\ UNCHANGED <<enqueued, diffVars, guessVars, routeVars, route, periods, reqBody, turnover, calls,
                   apc, upserts, store, firstSettled, apiResponse>>

\* Promise.all of period p has fulfilled: the period's function starts its
\* field-group upserts.
PeriodFields(p) ==
    /\ stage[p] = "containers"
    /\ ContainersReady(containers[p])
    /\ upserts' = [upserts EXCEPT ![p] = StartUpserts(reqBody[p], Groups)]
    /\ calls' = [calls EXCEPT ![p] =
            UpsertCalls(reqBody[p], PeriodTurnover(reqBody[p].turnover, turnover[p]), Groups)]
    /\ stage' = [stage EXCEPT ![p] = "fields"]
    /\ UNCHANGED <<enqueued, diffVars, guessVars, routeVars, route, periods, reqBody, turnover, apc,
                   containers, store, firstSettled, apiResponse>>

\* The field-group upsert g of period p settles.
FieldSettles(p, g) ==
    /\ upserts[p][g] = "pending"
    /\ \E ok \in BOOLEAN :
        IF ok
        THEN /\ upserts' = [upserts EXCEPT ![p][g] = "fulfilled"]
             /\ store' = [store EXCEPT ![p][g] = Written(calls[p][g].kind)]
             /\ firstSettled' = [firstSettled EXCEPT
                    ![p] = IF @ = "none" THEN "fulfilled" ELSE @]
        ELSE /\ upserts' = [upserts EXCEPT ![p] = AfterRejection(upserts[p], g)]
             /\ UNCHANGED store
             /\ firstSettled' = [firstSettled EXCEPT
                    ![p] = IF @ = "none" THEN "rejected" ELSE @]
    /\ UNCHANGED <<enqueued, diffVars, guessVars, routeVars, route, periods, reqBody, turnover, calls,
                   apc, stage, containers, apiResponse>>

\* Promise.allSettled over the field-group upserts of period p resolves.
FieldsSettled(p) ==
    /\ stage[p] = "fields"
    /\ \A g \in Groups : upserts[p][g] # "pending"
    /\ stage' = [stage EXCEPT ![p] = "settled"]
    /\ UNCHANGED <<enqueued, diffVars, guessVars, routeVars, route, periods, reqBody, turnover, calls,
                   apc, containers, upserts, store, firstSettled, apiResponse>>

\* The route's try block is left and the request is answered.
Respond ==
    /\ apc = "running"
    /\ \A p \in periods : stage[p] \in {"settled", "rejected"}
    /\ apiResponse' = IF AllSettled(Outcomes) = "rejected" THEN Failure(route) ELSE Ok
    /\ apc' = "responded"
    /\ UNCHANGED <<enqueued, diffVars, guessVars, routeVars, route, periods, reqBody, turnover, calls,
                   stage, containers, upserts, store, firstSettled>>

InitApi ==
    /\ enqueued = <<>>
    /\ jobData = [set |-> FALSE]
    /\ deliveries = 0
    /\ jobState = "none"
    /\ exec = [k \in Deliveries |-> IdleExec]
    /\ diffCalls = <<>>
    /\ GuessIdle
    /\ route \in Routes
    /\ periods \in PeriodLists(route)
    /\ reqBody \in Bodies(route, periods)
    /\ turnover \in {t \in [Periods -> Turnovers \cup {NoTurnover}] :
            \A p \in Periods : (t[p] # NoTurnover) <=> (reqBody[p].turnover = Object)}
    /\ calls = [p \in Periods |-> [g \in Groups |-> NoCall]]
    /\ apc = "received"
    /\ stage = [p \in Periods |-> "idle"]
    /\ containers = [p \in Periods |-> [emissions |-> "none", economy |-> "none"]]
    /\ upserts = [p \in Periods |-> [g \in Groups |-> "none"]]
    /\ store = [p \in Periods |-> [g \in Groups |-> "old"]]
    /\ firstSettled = [p \in Periods |-> "none"]
    /\ apiResponse = [sent |-> FALSE]
    /\ RoutesIdle

NextApi ==
    \/ PostEmissions
    \/ PostEconomy
    \/ PostReportingPeriods
    \/ \E p \in Periods :
        \/ ReportingPeriodUpserted(p)
        \/ \E c \in {"emissions", "economy"} : ContainerSettles(p, c)
        \/ PeriodFields(p)
        \/ \E g \in Groups : FieldSettles(p, g)
        \/ FieldsSettled(p)
    \/ Respond

SpecApi == InitApi /\ [][NextApi]_vars

\* ------------------------------------------- the gate and the routes behind it

\* How many requests about the company run concurrently.
MaxRequests == 2
Requests == 1..MaxRequests

Resources == {"goals", "initiatives", "equalities"}
\* POST / and POST /:wikidataId, registered in front of the gate.
CompanyRoutes == [method : {"POST"}, path : {"/", "/:wikidataId"}]
\* PATCH and DELETE /:wikidataId/<resource>/:id
RecordRoutes == [method : {"PATCH", "DELETE"}, path : Resources]
\* POST /:wikidataId/<resource>
CreateRoutes == [method : {"POST"}, path : Resources]
IndustryRoute == [method |-> "POST", path |-> "industry"]
\* The reporting-period routes, whose handlers SpecApi runs.
PeriodRoutes ==
    {[method |-> "POST", path |-> "reporting-periods"],
     [method |-> "PATCH", path |-> "report-url"],
     [method |-> "POST", path |-> ":year/emissions"],
     [method |-> "POST", path |-> ":year/economy"]}
\* Every route under /:wikidataId/.
SubRoutes == RecordRoutes \cup CreateRoutes \cup {IndustryRoute} \cup PeriodRoutes

\* What a Persistence Gateway call rejects with.
NoError == [class |-> "none"]
RecordNotFound == [class |-> "PrismaClientKnownRequestError", code |-> "P2025"]
GatewayErrors ==
    {RecordNotFound,
     [class |-> "PrismaClientKnownRequestError", code |-> "P2002"],
     [class |-> "Error", code |-> "P2025"]}
GatewayOutcomes == {NoError} \cup GatewayErrors

GarboAPIError(message, statusCode, original) ==
    [class |-> "GarboAPIError", message |-> message, statusCode |-> statusCode,
     original |-> original]
\* A GarboAPIError made without a status code.
GarboAPIErrorPlain(message, original) ==
    [class |-> "GarboAPIError", message |-> message, original |-> original]
Thrown(err) == [thrown |-> err]

\* 'Goal not found', 'Initiative not found', 'Equality not found'
NotFoundMessage(resource) ==
    CASE resource = "goals" -> "Goal not found"
      [] resource = "initiatives" -> "Initiative not found"
      [] OTHER -> "Equality not found"

\* The .catch of the PATCH and DELETE handlers.
CatchKnownAsNotFound(err, resource) ==
    IF err.class = "PrismaClientKnownRequestError"
    THEN GarboAPIError(NotFoundMessage(resource), 404, err)
    ELSE err
CatchNotFound(err, resource) ==
    IF err.class = "PrismaClientKnownRequestError" /\ err.code = "P2025"
    THEN GarboAPIError(NotFoundMessage(resource), 404, err)
    ELSE err

\* if (!company) throw: the gate lets a request through when findFirst found
\* the company.
GatePassesAlways(found) == TRUE
GatePasses(found) == found

CompanyNotFound == Thrown(GarboAPIError("Company not found", 404, NoError))

\* A request as it arrives.
Received(rt) ==
    [route |-> rt, pc |-> "received", company |-> "unset", current |-> "unset",
     wrote |-> FALSE, outcome |-> [class |-> "unset"], response |-> [sent |-> FALSE]]

\* handleCompanyUpsert: upsertCompany stores the company or rejects.
HandleCompanyUpsert(r) ==
    /\ requests[r].pc = "received"
    /\ requests[r].route \in CompanyRoutes
    /\ \E outcome \in GatewayOutcomes :
        IF outcome = NoError
        THEN /\ companyStored' = TRUE
             /\ requests' = [requests EXCEPT ![r].pc = "done", ![r].wrote = TRUE,
                                ![r].outcome = outcome,
                                ![r].response = [company |-> "stored"]]
        ELSE /\ UNCHANGED companyStored
             /\ requests' = [requests EXCEPT ![r].pc = "done", ![r].outcome = outcome,
                    ![r].response =
                        Thrown(GarboAPIErrorPlain("Failed to upsert company", outcome))]
    /\ UNCHANGED <<enqueued, diffVars, guessVars, apiVars, industryStored,
                   createIndustryCalls>>

\* The middleware on /:wikidataId: findFirst, then 'Company not found' or
\* res.locals.company and next().
CompanyGate(r) ==
    /\ requests[r].pc = "received"
    /\ requests[r].route \in SubRoutes
    /\ requests' = [requests EXCEPT
            ![r] = IF GatePasses(companyStored)
                   THEN [@ EXCEPT !.pc = "handler",
                                  !.company = IF companyStored THEN "found" ELSE "missing"]
                   ELSE [@ EXCEPT !.pc = "done", !.company = "missing",
                                  !.response = CompanyNotFound]]
    /\ UNCHANGED <<enqueued, diffVars, guessVars, apiVars, companyStored, industryStored,
                   createIndustryCalls>>

\* PATCH and DELETE of a goal, an initiative or an equality: the update or
\* delete call, its .catch and res.json.
ChangeRecord(r) ==
    /\ requests[r].pc = "handler"
    /\ requests[r].route \in RecordRoutes
    /\ \E outcome \in GatewayOutcomes :
        requests' = [requests EXCEPT
            ![r].pc = "done",
            ![r].wrote = TRUE,
            ![r].outcome = outcome,
            ![r].response = IF outcome = NoError
                            THEN Ok
                            ELSE Thrown(CatchNotFound(outcome, requests[r].route.path))]
    /\ UNCHANGED <<enqueued, diffVars, guessVars, apiVars, companyStored, industryStored,
                   createIndustryCalls>>

\* POST of goals, initiatives or equalities: the create call when the list
\* is not empty, then res.json.
CreateRecords(r) ==
    /\ requests[r].pc = "handler"
    /\ requests[r].route \in CreateRoutes
    /\ \E empty \in BOOLEAN, outcome \in GatewayOutcomes :
        requests' = [requests EXCEPT
            ![r].pc = "done",
            ![r].wrote = ~empty,
            ![r].outcome = IF empty THEN @ ELSE outcome,
            ![r].response = IF empty \/ outcome = NoError THEN Ok ELSE Thrown(outcome)]
    /\ UNCHANGED <<enqueued, diffVars, guessVars, apiVars, companyStored, industryStored,
                   createIndustryCalls>>

\* A reporting-period route is handled.
HandlePeriodRoute(r) ==
    /\ requests[r].pc = "handler"
    /\ requests[r].route \in PeriodRoutes
    /\ \E wrote \in BOOLEAN :
        requests' = [requests EXCEPT ![r].pc = "done", ![r].wrote = wrote,
                                     ![r].response = Ok]
    /\ UNCHANGED <<enqueued, diffVars, guessVars, apiVars, companyStored, industryStored,
                   createIndustryCalls>>

\* POST /:wikidataId/industry up to its second await: findFirst resolves and
\* updateIndustry or createIndustry is called.
PostIndustry(r) ==
    /\ requests[r].pc = "handler"
    /\ requests[r].route = IndustryRoute
    /\ requests' = [requests EXCEPT
            ![r].pc = "awaiting",
            ![r].current = IF industryStored THEN "some" ELSE "none",
            ![r].wrote = TRUE]
    /\ createIndustryCalls' = IF industryStored
                              THEN createIndustryCalls
                              ELSE createIndustryCalls + 1
    /\ UNCHANGED <<enqueued, diffVars, guessVars, apiVars, companyStored, industryStored>>

\* updateIndustry or createIndustry settles.
IndustrySettles(r) ==
    /\ requests[r].pc = "awaiting"
    /\ \E outcome \in GatewayOutcomes :
        IF outcome = NoError
        THEN /\ industryStored' = TRUE
             /\ requests' = [requests EXCEPT ![r].pc = "done", ![r].outcome = outcome,
                                             ![r].response = Ok]
        ELSE /\ UNCHANGED industryStored
             /\ requests' = [requests EXCEPT
                    ![r].pc = "done",
                    ![r].outcome = outcome,
                    ![r].response = Thrown(GarboAPIError(
                        IF requests[r].current = "some"
                        THEN "Failed to update industry"
                        ELSE "Failed to create industry", 500, outcome))]
    /\ UNCHANGED <<enqueued, diffVars, guessVars, apiVars, companyStored,
                   createIndustryCalls>>

InitRoutes ==
    /\ enqueued = <<>>
    /\ jobData = [set |-> FALSE]
    /\ deliveries = 0
    /\ jobState = "none"
    /\ exec = [k \in Deliveries |-> IdleExec]
    /\ diffCalls = <<>>
    /\ GuessIdle
    /\ ApiIdle
    /\ companyStored \in BOOLEAN
    /\ industryStored = FALSE
    /\ createIndustryCalls = 0
    /\ requests \in [Requests -> {Received(rt) : rt \in CompanyRoutes \cup SubRoutes}]

NextRoutes ==
    \E r \in Requests :
        \/ HandleCompanyUpsert(r)
        \/ CompanyGate(r)
        \/ ChangeRecord(r)
        \/ CreateRecords(r)
        \/ HandlePeriodRoute(r)
        \/ PostIndustry(r)
        \/ IndustrySettles(r)

SpecRoutes == InitRoutes /\ [][NextRoutes]_vars

\* ------------------------------------------------ claims on diffEqualities

\* The stored equalities of a company, undefined when there is none.
EqualitiesOf(company) == IF company.exists THEN company.equalities ELSE NoFragment

\* The diffChanges call execution k made.
DiffCallOf(k) == CHOOSE c \in {diffCalls[j] : j \in DOMAIN diffCalls} : c.delivery = k

\* C1: one execution of the diffEqualities handler adds exactly one save job
\* when diffChanges returned a non-empty diff and none when it returned an
\* empty one, and adds none before diffChanges has completed.
C1_SaveCountMatchesDiff ==
    \A k \in Deliveries :
        /\ exec[k].pc \in {"idle", "diffing", "failed"} => AddedBy(k) = 0
        /\ exec[k].pc = "diffed" => AddedBy(k) = 0
        /\ exec[k].pc = "added" => AddedBy(k) = 1 /\ exec[k].diff # {}
        /\ exec[k].pc = "returned" =>
                AddedBy(k) = (IF exec[k].diff # {} THEN 1 ELSE 0)
        /\ AddedBy(k) <= 1

C1_Witness ==
    \E k \in Deliveries :
        exec[k].pc = "returned" /\ exec[k].diff # {} /\ AddedBy(k) = 1

\* C2: no save job sits on the saveToAPI queue with requiresApproval = false.
C2_NoUnapprovedSave ==
    \A i \in SaveJobs : enqueued[i].data.requiresApproval = TRUE

C2_Witness ==
    \E i \in SaveJobs :
        /\ enqueued[i].data.requiresApproval
        /\ DiffChanges(DiffCallOf(enqueued[i].by)).requiresApproval

\* C3: every save job with apiSubEndpoint 'equalities' was preceded by a diff
\* of the proposed equalities against the stored equalities of the same company.
C3_DiffAgainstStoredEqualities ==
    \A i \in SaveJobs :
        enqueued[i].data.apiSubEndpoint = "equalities" =>
            \E j \in DOMAIN diffCalls :
                /\ diffCalls[j].delivery = enqueued[i].by
                /\ diffCalls[j].existingCompany = enqueued[i].data.existingCompany
                /\ diffCalls[j].before = EqualitiesOf(enqueued[i].data.existingCompany)
                /\ diffCalls[j].after = enqueued[i].data.body.equalities

\* The stored and the proposed fragment agree on every field.
FieldwiseEqual(stored, proposed) ==
    \A f \in FragmentFields : FieldOf(stored, f) = FieldOf(proposed, f)

\* C4: when the stored equalities are field-wise equal to the proposed ones,
\* the handler gets requiresApproval = false and enqueues no save job,
\* whatever the company's other fragments are.
C4_ResubmissionIsNoOp ==
    \A k \in Deliveries :
        ( /\ exec[k].pc \in {"diffed", "added", "returned"}
          /\ jobData.existingCompany.exists
          /\ jobData.existingCompany.equalities.defined
          /\ FieldwiseEqual(jobData.existingCompany.equalities, jobData.equalities) )
        => exec[k].requiresApproval = FALSE /\ AddedBy(k) = 0

\* C5: the save job carries the diff and the verdict as diffChanges returned
\* them, the metadata built in that execution from the job's url, the
\* sub-endpoint 'equalities', a body holding the proposed equalities, and the
\* original payload with only its top-level equalities removed.
C5_SavePayloadFrame ==
    \A i \in SaveJobs :
        LET d == enqueued[i].data
            k == enqueued[i].by
            r == DiffChanges(DiffCallOf(k))
        IN  /\ d.diff = r.diff
            /\ d.requiresApproval = r.requiresApproval
            /\ d.body.metadata = defaultMetadata(jobData.url)
            /\ d.body.metadata = exec[k].metadata
            /\ d.body.equalities = jobData.equalities
            /\ d.apiSubEndpoint = "equalities"
            /\ d.equalities = NoFragment
            /\ DOMAIN d = (DOMAIN jobData)
                            \cup {"body", "diff", "requiresApproval", "apiSubEndpoint"}
            /\ \A key \in (DOMAIN jobData) \ {"equalities"} : d[key] = jobData[key]

C5_Witness ==
    \E i \in SaveJobs :
        /\ enqueued[i].data.apiSubEndpoint = "equalities"
        /\ exec[enqueued[i].by].pc = "returned"

\* C6: when the broker redelivers the same diffEqualities job after the
\* handler already ran, the saveToAPI queue does not end up holding two save
\* jobs for that diff.
C6_OneSavePerDiff == Cardinality(SaveJobs) <= 1

\* ------------------------------------------------- claims on guessWikidata

\* C7 (as stated): on success the guessWikidata job enqueues the next
\* extraction job, whose payload is the original payload with the resolved
\* identifier merged in.
C7_SuccessEnqueuesNext ==
    gpc = "done" =>
        \E i \in DOMAIN enqueued :
            /\ enqueued[i].data.companyName = companyName
            /\ enqueued[i].data.wikidata = JSONparse(response).wikidata

\* C7 (amended): on success the guessWikidata job enqueues nothing; it sends
\* the best-match message and returns, as the job's result, the Extraction
\* Service's answer parsed and serialised again, which holds the resolved
\* identifier.
C7_SuccessReturnsIdentifier ==
    gpc = "done" =>
        /\ enqueued = <<>>
        /\ returnValue = JSONstringify(JSONparse(response))
        /\ JSONparse(returnValue).wikidata.node \notin {Undefined, ""}
        /\ messages # <<>>
        /\ messages[Len(messages)] =
                [kind |-> "bestMatch", companyName |-> companyName,
                 json |-> returnValue]

C7_Witness ==
    gpc = "done" /\ response.indent = 0 /\ returnValue.indent = 2

\* C8: getWikidataSearchResults issues at most 4 searchCompany calls,
\* attempts 0 to 3, whatever the name and whatever the searches answer.
C8_AtMostFourSearches ==
    /\ Len(searches) <= 4
    /\ gpc = "search" => retry = Len(searches) /\ retry <= 3
    /\ gpc \in {"fetch", "ask", "done", "failed"} => Len(searches) <= retry + 1

C8_Witness ==
    /\ gpc = "fetch"
    /\ Len(searches) = 4
    /\ searchResults = <<>>
    /\ query # <<>>

\* The whitespace-delimited tokens of a string.
Tokens(str) == SelectSeq(SplitWhitespace(str), LAMBDA piece : piece # <<>>)

\* The tokens of a name that are not insignificant words, whatever their case.
SignificantTokens(name) ==
    SelectSeq(Tokens(name), LAMBDA word : ~IsInsignificant(toLowerCase(word)))

\* C9 (as stated): attempt 0 is the name as given; attempt 1 is the name with
\* every insignificant word removed regardless of case; each later attempt is
\* the previous query with its last whitespace-delimited token dropped; the
\* token count never grows.
C9_QuerySequence ==
    \A i \in DOMAIN searches :
        /\ i = 1 => searches[i] = companyName
        /\ i = 2 => Tokens(searches[i]) = SignificantTokens(companyName)
        /\ i > 2 => Tokens(searches[i]) = DropLast(Tokens(searches[i - 1]))
        /\ i > 1 => Len(Tokens(searches[i])) <= Len(Tokens(searches[i - 1]))

\* C9 (amended): attempt 0 is the name as given; attempt 1 is the lower-cased
\* name with every insignificant word removed, its pieces joined by single
\* spaces; each later attempt is the previous query cut at its last space,
\* which drops the last token unless the previous query ends with a space,
\* and then drops only that space; insignificant words are removed once and
\* the token count never grows.
C9_QuerySequenceLowerCased ==
    \A i \in DOMAIN searches :
        /\ i = 1 => searches[i] = companyName
        /\ i = 2 =>
            /\ Tokens(searches[i]) = SignificantTokens(toLowerCase(companyName))
            /\ \A j \in DOMAIN searches[i] :
                    /\ searches[i][j] # "\t"
                    /\ j > 1 => ~(searches[i][j - 1] = " " /\ searches[i][j] = " ")
        /\ i > 2 =>
            LET prev == searches[i - 1]
            IN  IF prev[Len(prev)] = " "
                THEN searches[i] = SubSeq(prev, 1, Len(prev) - 1)
                ELSE /\ Tokens(searches[i]) = DropLast(Tokens(prev))
                     /\ Tokens(searches[i]) # <<>>
        /\ i > 1 => Len(Tokens(searches[i])) <= Len(Tokens(searches[i - 1]))

C9_Witness ==
    /\ Len(searches) = 4
    /\ Len(Tokens(searches[2])) < Len(Tokens(searches[1]))
    /\ searches[2] # toLowerCase(searches[2]) \/ searches[1] # toLowerCase(searches[1])
    /\ Tokens(searches[3]) = Tokens(searches[2])
    /\ Len(Tokens(searches[4])) < Len(Tokens(searches[3]))

\* C10: the resolver never issues a search with an empty name.
C10_NoEmptySearch ==
    \A i \in DOMAIN searches : searches[i] # <<>>

\* The name of the scenario, "Telia Group".
TeliaGroup == <<"Telia", " ", "Group">>

\* The first two searches for "Telia Group" find nothing and the third finds
\* something.
TeliaGroupThirdHit ==
    /\ companyName = TeliaGroup
    /\ Len(answers) >= 3
    /\ answers[1] = <<>>
    /\ answers[2] = <<>>
    /\ answers[3] # <<>>

C12_FirstHitEndsSearch ==
    /\ Len(answers) = Len(searches)
    /\ \A i \in DOMAIN answers :
            answers[i] # <<>> =>
                /\ i = Len(answers)
                /\ gpc # "search"
                /\ searchResults = answers[i]
                /\ \A k \in DOMAIN lookups :
                        lookups[k] = [j \in DOMAIN answers[i] |-> answers[i][j].id]
    /\ Len(lookups) <= 1

C12_Witness ==
    /\ Len(answers) >= 2
    /\ lookups = << <<"Q2", "Q1">> >>
    /\ gpc = "ask"

\* The candidates of the request sent to the Extraction Service.
CandidatesSent == JSONparse(askRequests[1][4].content)
IdsOf(list) == [i \in DOMAIN list |-> list[i].id]
\* The fetched record a candidate was made from.
FetchedAs(c) == CHOOSE e \in {entities[i] : i \in DOMAIN entities} : e.id = c.id

\* C13: the candidates sent are the fetched records with those that have a
\* P5991 claim first, each group in the order fetched.
C13_EmittersFirstStable ==
    askRequests # <<>> =>
        IdsOf(CandidatesSent) =
            IdsOf(SelectSeq(entities, LAMBDA e : "P5991" \in e.claims.props))
                \o IdsOf(SelectSeq(entities, LAMBDA e : "P5991" \notin e.claims.props))

C13_Witness ==
    /\ askRequests # <<>>
    /\ IdsOf(entities) = <<"Q2", "Q1">>
    /\ IdsOf(CandidatesSent) = <<"Q1", "Q2">>

\* C14: every candidate sent has no claims and every other field of the
\* fetched record unchanged, and the candidates are ranked by the claims
\* the records had.
C14_ClaimsStrippedOnly ==
    askRequests # <<>> =>
        /\ Len(CandidatesSent) = Len(entities)
        /\ \A i \in DOMAIN CandidatesSent :
            LET c == CandidatesSent[i]
                e == FetchedAs(c)
            IN  /\ \E j \in DOMAIN entities : entities[j].id = c.id
                /\ DOMAIN c = (DOMAIN e) \ {"claims"}
                /\ \A key \in DOMAIN c : c[key] = e[key]
        /\ \A i, j \in DOMAIN CandidatesSent :
            (i < j /\ hasEmissions(FetchedAs(CandidatesSent[j])))
                => hasEmissions(FetchedAs(CandidatesSent[i]))

C14_Witness ==
    /\ askRequests # <<>>
    /\ \E i \in DOMAIN entities : hasEmissions(entities[i])
    /\ \A i \in DOMAIN CandidatesSent : "claims" \notin DOMAIN CandidatesSent[i]

\* C15: with zero candidates the job sends one message and fails with the
\* 'no entity' error; the Extraction Service is not called, no success
\* message is sent and nothing is enqueued.
C15_NoEntityFails ==
    (lookups # <<>> /\ entities = <<>>) =>
        /\ gpc = "failed"
        /\ error = "No Wikidata entry"
        /\ messages = <<[kind |-> "notFound", companyName |-> companyName]>>
        /\ askCalls = 0
        /\ askRequests = <<>>
        /\ returnValue = [kind |-> "none"]
        /\ enqueued = <<>>

C15_Witness ==
    /\ lookups = << <<>> >>
    /\ entities = <<>>
    /\ Len(searches) = 4
    /\ gpc = "failed"

\* The Extraction Service's answer holds no identifier: it is no JSON, or
\* JSON without wikidata.node.
NoIdentifier ==
    IF response.kind = "garbage" THEN TRUE
    ELSE JSONparse(response).wikidata.node \in {Undefined, ""}

\* C16: when the answer holds no parsable identifier, the job fails with the
\* 'could not parse identifier' error, returns nothing and sends no success
\* message.
C16_UnparsableFails ==
    (askCalls > 0 /\ NoIdentifier) =>
        /\ gpc = "failed"
        /\ error = "Could not parse wikidataId from json"
        /\ returnValue = [kind |-> "none"]
        /\ \A i \in DOMAIN messages : messages[i].kind # "bestMatch"

\* C17: every failing path of the job has sent a message on the Review
\* Channel when the job fails.
C17_FailureSendsMessage ==
    gpc = "failed" => messages # <<>>

\* C18: with n >= 1 failure messages in the stacktrace the request ends with
\* one more user turn, after the candidates, holding the n messages in
\* order; with none, the request ends with the candidates.
C18_StacktraceTurn ==
    askRequests # <<>> =>
        LET req == askRequests[1]
        IN  /\ req[4].role = "user"
            /\ req[4].content.kind = "json"
            /\ IF stacktrace.defined /\ stacktrace.lines # <<>>
               THEN /\ Len(req) = 5
                    /\ req[5].role = "user"
                    /\ req[5].content.kind = "text"
                    /\ SelectSeq(req[5].content.text, LAMBDA c : c # "\n")
                            = [i \in DOMAIN stacktrace.lines |-> stacktrace.lines[i][1]]
                    /\ Len(req[5].content.text) = 2 * Len(stacktrace.lines) - 1
               ELSE Len(req) = 4

C18_Witness ==
    /\ askRequests # <<>>
    /\ stacktrace.defined
    /\ Len(stacktrace.lines) = 2
    /\ Len(askRequests[1]) = 5

\* Period p has a field-group upsert that settled as rejected and a later
\* one that settled as fulfilled.
FulfilledAfterRejected(p) ==
    /\ firstSettled[p] = "rejected"
    /\ \E g \in Groups : upserts[p][g] = "fulfilled"

\* C19: the supplied field groups' upserts of a period are all started
\* together; when one fails the others still settle on their own, none is
\* cancelled, and what a successful one wrote stays written.
C19_SiblingUpsertsComplete ==
    apc # "idle" =>
        \A p \in Periods :
            /\ stage[p] \in {"fields", "settled"} =>
                    \A g \in RouteGroups(route) :
                        IF IsUpserted(g, reqBody[p][g])
                        THEN upserts[p][g] \in {"pending", "fulfilled", "rejected"}
                        ELSE upserts[p][g] = "none"
            /\ stage[p] = "settled" =>
                    \A g \in Groups : upserts[p][g] \in {"none", "fulfilled", "rejected"}
            /\ \A g \in Groups :
                    IF upserts[p][g] = "fulfilled"
                    THEN store[p][g] = Written(reqBody[p][g])
                    ELSE store[p][g] = "old"

C19_Witness ==
    /\ apc = "responded"
    /\ \E p \in Periods :
        /\ stage[p] = "settled"
        /\ FulfilledAfterRejected(p)
        /\ \E g \in Groups : upserts[p][g] = "fulfilled" /\ store[p][g] = "written"

\* C20: a request that is answered after one of its field-group upserts
\* failed is answered with the route's error, status 500, not with {ok: true}.
C20_FailureReported ==
    (apc = "responded" /\ \E p \in Periods, g \in Groups : upserts[p][g] = "rejected")
        => apiResponse = Failure(route)

\* What the model holds about period p.
PeriodState(p) == <<stage[p], containers[p], upserts[p], calls[p], store[p], turnover[p]>>

\* C21: while a reporting-periods request runs, every step belongs to one
\* period and leaves every other period as it was; a failing step of one
\* period in particular changes nothing of another period.
C21_PeriodsIndependent ==
    [][(route = "reporting-periods" /\ apc = "running") =>
            \A p, q \in Periods :
                (p # q /\ PeriodState(p)' # PeriodState(p))
                    => PeriodState(q)' = PeriodState(q)]_vars

C21_Witness ==
    /\ route = "reporting-periods"
    /\ periods = {"p1", "p2"}
    /\ stage["p1"] = "rejected"
    /\ containers["p1"].emissions = "rejected"
    /\ stage["p2"] = "settled"
    /\ \E g \in Groups : upserts["p2"][g] = "fulfilled" /\ store["p2"][g] # "old"
    /\ apc = "responded"

\* C22: once a period's field-group upserts are started, each of scope1,
\* scope2, statedTotalEmissions, biogenic, scope1And2, turnover and employees
\* that the body gives as null has its upsert called with null, and a
\* fulfilled one leaves the value deleted; a group the body omits has no
\* call, and its stored value stays as it was.
C22_NullIsNotOmission ==
    \A p \in Periods :
        \A g \in RouteGroups(route) \ {"scope3"} :
            /\ (stage[p] \in {"fields", "settled"} /\ reqBody[p][g] = Null) =>
                    /\ calls[p][g] = [called |-> TRUE, kind |-> Null]
                    /\ upserts[p][g] # "none"
                    /\ upserts[p][g] = "fulfilled" => store[p][g] = "deleted"
            /\ (apc # "idle" /\ reqBody[p][g] = Undefined) =>
                    /\ calls[p][g] = NoCall
                    /\ upserts[p][g] = "none"
                    /\ store[p][g] = "old"

C22_Witness ==
    /\ route = "reporting-periods"
    /\ reqBody["p1"].scope1And2 = Null
    /\ reqBody["p1"].scope1 = Undefined
    /\ calls["p1"].scope1And2 = [called |-> TRUE, kind |-> Null]
    /\ store["p1"].scope1And2 = "deleted"
    /\ store["p1"].scope1 = "old"

\* C23: in POST economy and POST reporting-periods, a turnover object that
\* is passed to upsertTurnover carries the value supplied and, when a
\* currency was supplied, that currency trimmed and upper-cased (" sek "
\* becomes "SEK"); a currency supplied in that form is passed as it is.
C23_CurrencyNormalised ==
    \A p \in Periods :
        (apc # "idle" /\ calls[p].turnover.called /\ calls[p].turnover.kind = Object) =>
            LET supplied == turnover[p]
                passed == calls[p].turnover
            IN  /\ route \in {"economy", "reporting-periods"}
                /\ passed.value = supplied.value
                /\ passed.currency.defined = supplied.currency.defined
                /\ supplied.currency.defined =>
                        /\ passed.currency.text = toUpperCase(trim(supplied.currency.text))
                        /\ passed.currency.text \in {<<"SEK">>}
                        /\ toUpperCase(trim(passed.currency.text)) = passed.currency.text
                /\ supplied.currency = Currency(<<"SEK">>) => passed.currency = supplied.currency

C23_Witness ==
    /\ route = "reporting-periods"
    /\ turnover["p1"].currency = Currency(<<" ", "sek", "\t">>)
    /\ calls["p1"].turnover.called
    /\ calls["p1"].turnover.kind = Object
    /\ calls["p1"].turnover.currency = Currency(<<"SEK">>)
    /\ store["p1"].turnover = "written"

\* C27: in a reporting-periods request, a period's upsertEmissions and
\* upsertEconomy are not started before its upsertReportingPeriod has
\* completed, none of its field-group upserts is started before both of
\* them have fulfilled, and the request is answered only when every
\* period's function has settled.
C27_CausalOrder ==
    route = "reporting-periods" =>
        /\ \A p \in Periods :
            /\ stage[p] \in {"idle", "period"} =>
                    /\ containers[p] = [emissions |-> "none", economy |-> "none"]
                    /\ \A g \in Groups : upserts[p][g] = "none"
            /\ (\E g \in Groups : upserts[p][g] # "none" \/ calls[p][g] # NoCall) =>
                    /\ containers[p] = [emissions |-> "fulfilled", economy |-> "fulfilled"]
                    /\ stage[p] \in {"fields", "settled"}
        /\ apc = "responded" =>
                \A p \in periods :
                    /\ stage[p] \in {"settled", "rejected"}
                    /\ \A g \in Groups : upserts[p][g] # "pending"

C27_Witness ==
    /\ route = "reporting-periods"
    /\ periods = {"p1", "p2"}
    /\ apc = "responded"
    /\ \A p \in periods :
        /\ stage[p] = "settled"
        /\ \E g \in Groups : upserts[p][g] \in {"fulfilled", "rejected"}

\* C24: a PATCH or DELETE of a goal, an initiative or an equality whose
\* gateway call fails with the known-request error P2025 ends with the
\* resource's 'not found' error, status 404; with any other failure it ends
\* with that failure itself; in neither case is {ok: true} sent.
C24_NotFoundOnlyForP2025 ==
    \A r \in DOMAIN requests :
        (requests[r].route \in RecordRoutes /\ requests[r].wrote) =>
            LET outcome == requests[r].outcome
                answer == requests[r].response
            IN  /\ requests[r].pc = "done"
                /\ outcome \in GatewayOutcomes
                /\ outcome = RecordNotFound =>
                        answer = Thrown(GarboAPIError(
                            NotFoundMessage(requests[r].route.path), 404, outcome))
                /\ outcome \in GatewayErrors \ {RecordNotFound} => answer = Thrown(outcome)
                /\ outcome # NoError => answer # Ok
                /\ outcome = NoError => answer = Ok

C24_Witness ==
    \E r, q \in DOMAIN requests :
        /\ requests[r].route = [method |-> "PATCH", path |-> "goals"]
        /\ requests[r].outcome = RecordNotFound
        /\ requests[r].response.thrown.statusCode = 404
        /\ requests[q].route = [method |-> "DELETE", path |-> "equalities"]
        /\ requests[q].outcome = [class |-> "PrismaClientKnownRequestError", code |-> "P2002"]
        /\ requests[q].response = Thrown(requests[q].outcome)

C26_CreateIndustryOnce ==
    createIndustryCalls <= 1

====
